---- MODULE Spec2Model ----
(***************************************************************************)
(* A model of the callback guard of go-simple-guard (interface.go,         *)
(* errors.go): one CB instance shared by several goroutines, each of which *)
(* calls Fire() and Cancel() on it.  Every step that takes or releases the *)
(* instance mutex is a separate action, so the interleavings the Go        *)
(* scheduler can produce between matchState, the callback and the deferred *)
(* setState are all explored.                                              *)
(***************************************************************************)
EXTENDS Integers, Sequences, FiniteSets, TLC

\* Bounds of the model.
NumThreads == 2     \* goroutines sharing the guard
MaxCalls == 2       \* top-level Fire/Cancel calls each goroutine makes
MaxDepth == 2       \* nesting of calls made from inside the callback
MaxSeqCalls == 3    \* calls in a run that issues them one at a time
MaxChain == 3       \* layers of an error handed to a classification query
MaxConcCalls == 3   \* top-level calls in a short concurrent run
MaxFairCalls == 2   \* top-level calls in a run under a fair scheduler
MaxNilCalls == 4    \* calls made on the Nil guard

Threads == 1..NumThreads

\* interface.go:42-45 (0x001 and 0x010)
stFired == 1
stCanceled == 16

VARIABLES
    state,      \* CB.state
    mutex,      \* CB.mutex: 0 when unlocked, else the goroutine holding it
    onFire,     \* CB.onFire: the callback bound by Callback()
    stack,      \* per goroutine, the frames of its calls into the guard
    called,     \* how many times the callback has been entered
    nCalls,     \* how many calls of Fire/Cancel have started
    started,    \* per goroutine, how many top-level calls it has started
    rets,       \* per goroutine, the calls that returned, in order
    walk        \* the error handed to IsFiredError/IsCanceledError, and the outcome

vars == <<state, mutex, onFire, stack, called, nCalls, started, rets, walk>>

----------------------------------------------------------------------------
\* Bit operations on the int8 state (only non-negative values occur).

RECURSIVE BitAnd(_, _)
BitAnd(a, b) ==
    IF a = 0 \/ b = 0 THEN 0
    ELSE (IF a % 2 = 1 /\ b % 2 = 1 THEN 1 ELSE 0) + 2 * BitAnd(a \div 2, b \div 2)

RECURSIVE BitXor(_, _)
BitXor(a, b) ==
    IF a = 0 THEN b
    ELSE IF b = 0 THEN a
    ELSE (IF a % 2 # b % 2 THEN 1 ELSE 0) + 2 * BitXor(a \div 2, b \div 2)

----------------------------------------------------------------------------
\* Errors.  An error value is the chain of its layers, outermost first; the
\* nil error is the empty chain.  Cause() of a wrapper is the rest of the chain.

nil == << >>
errFired == << [type |-> "guardFiredErr"] >>
errCanceled == << [type |-> "guardCanceledErr"] >>
\* the error a failing callback returns: a plain error with no extra methods
errAction == << [type |-> "errorString"] >>

\* Error types of calling code, which may wrap any error: "wrap" has Cause()
\* only; "firedFalse" has Cause() and a Fired() that reports false;
\* "canceledFalse" has Cause() and a Canceled() that reports false.
WrapperTypes == {"wrap", "firedFalse", "canceledFalse"}
LeafTypes == {"guardFiredErr", "guardCanceledErr", "errorString"}

\* err.(guardFiredErrInterface)
ImplementsFired(l) == l.type \in {"guardFiredErr", "firedFalse"}
\* guardFiredErr.Fired, and Fired of a type of calling code
Fired(l) == l.type = "guardFiredErr"
\* err.(guardCanceledErrInterface)
ImplementsCanceled(l) == l.type \in {"guardCanceledErr", "canceledFalse"}
\* guardCanceledErr.Canceled, and Canceled of a type of calling code
Canceled(l) == l.type = "guardCanceledErr"
\* err.(causer)
ImplementsCauser(l) == l.type \in WrapperTypes
Cause(err) == Tail(err)

\* The errors of exactly n layers: wrappers around a leaf error or around nil.
RECURSIVE ChainsOfLen(_)
ChainsOfLen(n) ==
    IF n = 1 THEN { << [type |-> ty] >> : ty \in WrapperTypes \cup LeafTypes }
    ELSE { << [type |-> ty] >> \o c : ty \in WrapperTypes, c \in ChainsOfLen(n - 1) }

Chains == {nil} \cup UNION { ChainsOfLen(n) : n \in 1..MaxChain }

Returns(b) == [halts |-> TRUE, value |-> b]
\* the loop of the query never exits: err is not nil and is never replaced
Loops == [halts |-> FALSE, value |-> FALSE]

\* IsFiredError without the walk along Cause()
IsFiredError_NoUnwrap(err) ==
    IF err = nil THEN Returns(FALSE)
    ELSE IF ImplementsFired(Head(err)) THEN Returns(Fired(Head(err)))
    ELSE Returns(FALSE)

\* IsFiredError that walks on when Fired() reports false
RECURSIVE IsFiredError_SkipFalse(_)
IsFiredError_SkipFalse(err) ==
    IF err = nil THEN Returns(FALSE)
    ELSE IF ImplementsFired(Head(err)) /\ Fired(Head(err)) THEN Returns(TRUE)
    ELSE IF ImplementsCauser(Head(err)) THEN IsFiredError_SkipFalse(Cause(err))
    ELSE Loops

RECURSIVE IsFiredError(_)
IsFiredError(err) ==
    IF err = nil THEN Returns(FALSE)
    ELSE IF ImplementsFired(Head(err)) THEN Returns(Fired(Head(err)))
    ELSE IF ImplementsCauser(Head(err)) THEN IsFiredError(Cause(err))
    ELSE Loops

RECURSIVE IsCanceledError(_)
IsCanceledError(err) ==
    IF err = nil THEN Returns(FALSE)
    ELSE IF ImplementsCanceled(Head(err)) THEN Returns(Canceled(Head(err)))
    ELSE IF ImplementsCauser(Head(err)) THEN IsCanceledError(Cause(err))
    ELSE Loops

----------------------------------------------------------------------------
\* The guard.

\* matchState that tests the whole state instead of the bit asked for
matchState_AnyBit(s, st) == s # 0

\* CB.matchState: the value computed under the mutex
matchState(s, st) == BitAnd(s, st) = st

\* CB.setState: the value stored under the mutex
setState_And(s, st) == BitAnd(s, st)
setState(s, st) == BitXor(s, st)

\* The callbacks a guard is constructed with: no callback at all, or one
\* that returns nil or an error and that may call Fire() or Cancel() on the
\* guard it is bound to (at most once per run, while fewer than MaxDepth
\* calls are nested).
Callbacks ==
    { [isNil |-> TRUE, result |-> nil, reenter |-> "none"] } \cup
    [isNil : {FALSE}, result : {nil, errAction}, reenter : {"none", "Fire", "Cancel"}]

Depth(t) == Len(stack[t])
Top(t) == stack[t][Depth(t)]
InCallback(f) == f.op = "Fire" /\ f.pc = "cb"
\* some other goroutine is inside the callback, and it is the only run so far
ActionRunningElsewhere(t) ==
    /\ called = 1
    /\ \E u \in Threads \ {t} : \E i \in 1..Depth(u) : InCallback(stack[u][i])

\* some call has written the state and returned
resolved == \E t \in Threads : \E i \in 1..Len(rets[t]) : rets[t][i].wrote

\* some Fire that ran the callback has returned
fireDone ==
    \E t \in Threads : \E i \in 1..Len(rets[t]) : rets[t][i].op = "Fire" /\ rets[t][i].ran

NewFrame(t, op) ==
    [op |-> op, pc |-> "matchCanceled.Lock", ret |-> nil, seq |-> nCalls + 1,
     late |-> resolved, afterFire |-> fireDone,
     during |-> ActionRunningElsewhere(t),
     reentered |-> FALSE, ran |-> FALSE, wrote |-> FALSE]

SetTop(t, f) == [stack EXCEPT ![t] = [@ EXCEPT ![Depth(t)] = f]]
Pop(t) == [stack EXCEPT ![t] = SubSeq(@, 1, Depth(t) - 1)]

\* what is remembered of a call that returned
Returned(t, f, err) ==
    [op |-> f.op, ret |-> err, seq |-> f.seq, late |-> f.late, afterFire |-> f.afterFire,
     during |-> f.during, inner |-> Depth(t) > 1, ran |-> f.ran, wrote |-> f.wrote]

\* the top-level calls started so far
RECURSIVE SumStarted(_)
SumStarted(n) == IF n = 0 THEN 0 ELSE started[n] + SumStarted(n - 1)
TotalStarted == SumStarted(NumThreads)

\* no classification query has been made
NoWalk == [input |-> nil, query |-> "none", result |-> Returns(FALSE)]

TypeOK ==
    /\ state \in 0..127
    /\ mutex \in 0..NumThreads
    /\ onFire \in Callbacks
    /\ called \in Nat
    /\ nCalls \in Nat
    /\ \A t \in Threads : Depth(t) <= MaxDepth /\ started[t] <= MaxCalls

Init ==
    /\ state = 0
    /\ mutex = 0
    /\ onFire \in Callbacks
    /\ stack = [t \in Threads |-> << >>]
    /\ called = 0
    /\ nCalls = 0
    /\ started = [t \in Threads |-> 0]
    /\ rets = [t \in Threads |-> << >>]
    /\ walk = NoWalk

\* A goroutine calls g.Fire() or g.Cancel().
Call(t, op) ==
    /\ Depth(t) = 0
    /\ started[t] < MaxCalls
    /\ stack' = [stack EXCEPT ![t] = << NewFrame(t, op) >>]
    /\ started' = [started EXCEPT ![t] = @ + 1]
    /\ nCalls' = nCalls + 1
    /\ UNCHANGED <<state, mutex, onFire, called, rets, walk>>

\* c.mutex.Lock() at the start of matchState and of setState.
Lock(t) ==
    /\ Depth(t) > 0
    /\ Top(t).pc \in {"matchCanceled.Lock", "matchFired.Lock", "setState.Lock"}
    /\ mutex = 0
    /\ mutex' = t
    /\ stack' = SetTop(t, [Top(t) EXCEPT !.pc =
                    CASE @ = "matchCanceled.Lock" -> "matchCanceled"
                      [] @ = "matchFired.Lock" -> "matchFired"
                      [] OTHER -> "setState"])
    /\ UNCHANGED <<state, onFire, called, nCalls, started, rets, walk>>

\* matchState(stCanceled) without the deferred c.mutex.Unlock()
MatchCanceled_NoUnlock(t) ==
    /\ Depth(t) > 0
    /\ Top(t).pc = "matchCanceled"
    /\ mutex = t
    /\ mutex' = t
    /\ IF matchState(state, stCanceled)
       THEN /\ stack' = Pop(t)
            /\ rets' = [rets EXCEPT ![t] = Append(@, Returned(t, Top(t), errCanceled))]
       ELSE /\ stack' = SetTop(t, [Top(t) EXCEPT !.pc = "matchFired.Lock"])
            /\ rets' = rets
    /\ UNCHANGED <<state, onFire, called, nCalls, started, walk>>

\* if c.matchState(stCanceled) { return errCanceled }
MatchCanceled(t) ==
    /\ Depth(t) > 0
    /\ Top(t).pc = "matchCanceled"
    /\ mutex = t
    /\ mutex' = 0
    /\ IF matchState(state, stCanceled)
       THEN /\ stack' = Pop(t)
            /\ rets' = [rets EXCEPT ![t] = Append(@, Returned(t, Top(t), errCanceled))]
       ELSE /\ stack' = SetTop(t, [Top(t) EXCEPT !.pc = "matchFired.Lock"])
            /\ rets' = rets
    /\ UNCHANGED <<state, onFire, called, nCalls, started, walk>>

\* if c.matchState(stFired) { return errFired }
MatchFired(t) ==
    /\ Depth(t) > 0
    /\ Top(t).pc = "matchFired"
    /\ mutex = t
    /\ mutex' = 0
    /\ IF matchState(state, stFired)
       THEN /\ stack' = Pop(t)
            /\ rets' = [rets EXCEPT ![t] = Append(@, Returned(t, Top(t), errFired))]
       ELSE /\ stack' = SetTop(t, [Top(t) EXCEPT !.pc =
                            IF @ = "matchFired" /\ Top(t).op = "Fire"
                            THEN "onFire" ELSE "setState.Lock"])
            /\ rets' = rets
    /\ UNCHANGED <<state, onFire, called, nCalls, started, walk>>

\* Fire: defer c.setState(stFired); if cb := c.onFire; cb != nil { return cb() }; return nil
InvokeOnFire(t) ==
    /\ Depth(t) > 0
    /\ Top(t).pc = "onFire"
    /\ IF onFire.isNil
       THEN /\ stack' = SetTop(t, [Top(t) EXCEPT !.pc = "setState.Lock", !.ret = nil])
            /\ called' = called
       ELSE /\ stack' = SetTop(t, [Top(t) EXCEPT !.pc = "cb", !.ran = TRUE])
            /\ called' = called + 1
    /\ UNCHANGED <<state, mutex, onFire, nCalls, started, rets, walk>>

\* The callback, while running, calls Fire() or Cancel() on its own guard.
CallbackReenters(t) ==
    /\ Depth(t) > 0
    /\ Depth(t) < MaxDepth
    /\ Top(t).pc = "cb"
    /\ onFire.reenter # "none"
    /\ ~Top(t).reentered
    /\ stack' = [stack EXCEPT ![t] =
                    Append([@ EXCEPT ![Depth(t)] = [Top(t) EXCEPT !.reentered = TRUE]],
                           NewFrame(t, onFire.reenter))]
    /\ nCalls' = nCalls + 1
    /\ UNCHANGED <<state, mutex, onFire, called, started, rets, walk>>

\* The callback returns; Fire's result is the callback's.
CallbackReturns(t) ==
    /\ Depth(t) > 0
    /\ Top(t).pc = "cb"
    /\ onFire.reenter = "none" \/ Top(t).reentered \/ Depth(t) = MaxDepth
    /\ stack' = SetTop(t, [Top(t) EXCEPT !.pc = "setState.Lock", !.ret = onFire.result])
    /\ UNCHANGED <<state, mutex, onFire, called, nCalls, started, rets, walk>>

\* c.setState(st): deferred in Fire (st = stFired), called in Cancel
\* (st = stCanceled); the call then returns.
SetState(t) ==
    /\ Depth(t) > 0
    /\ Top(t).pc = "setState"
    /\ mutex = t
    /\ mutex' = 0
    /\ state' = setState(state, IF Top(t).op = "Fire" THEN stFired ELSE stCanceled)
    /\ stack' = Pop(t)
    /\ rets' = [rets EXCEPT ![t] =
                    Append(@, Returned(t, [Top(t) EXCEPT !.wrote = TRUE], Top(t).ret))]
    /\ UNCHANGED <<onFire, called, nCalls, started, walk>>

CallFire == \E t \in Threads : Call(t, "Fire")
CallCancel == \E t \in Threads : Call(t, "Cancel")
DoLock == \E t \in Threads : Lock(t)
DoMatchCanceled == \E t \in Threads : MatchCanceled(t)
DoMatchFired == \E t \in Threads : MatchFired(t)
DoInvokeOnFire == \E t \in Threads : InvokeOnFire(t)
DoCallbackReenters == \E t \in Threads : CallbackReenters(t)
DoCallbackReturns == \E t \in Threads : CallbackReturns(t)
DoSetState == \E t \in Threads : SetState(t)

Next ==
    \/ CallFire
    \/ CallCancel
    \/ DoLock
    \/ DoMatchCanceled
    \/ DoMatchFired
    \/ DoInvokeOnFire
    \/ DoCallbackReenters
    \/ DoCallbackReturns
    \/ DoSetState

Spec == Init /\ [][Next]_vars

----------------------------------------------------------------------------
\* Calls issued one at a time: a call starts only when no call is in
\* progress, and the callback does not touch the guard.

Idle == \A t \in Threads : Depth(t) = 0

InitSeq == Init /\ onFire.reenter = "none"

CallFireSeq == Idle /\ nCalls < MaxSeqCalls /\ CallFire
CallCancelSeq == Idle /\ nCalls < MaxSeqCalls /\ CallCancel

NextSeq ==
    \/ CallFireSeq
    \/ CallCancelSeq
    \/ DoLock
    \/ DoMatchCanceled
    \/ DoMatchFired
    \/ DoInvokeOnFire
    \/ DoCallbackReturns
    \/ DoSetState

SpecSeq == InitSeq /\ [][NextSeq]_vars

----------------------------------------------------------------------------
\* A short concurrent run: the goroutines start at most MaxConcCalls calls
\* between them, overlapping in any way; the callback does not touch the
\* guard.

CallFireConc == TotalStarted < MaxConcCalls /\ CallFire
CallCancelConc == TotalStarted < MaxConcCalls /\ CallCancel

NextConc ==
    \/ CallFireConc
    \/ CallCancelConc
    \/ DoLock
    \/ DoMatchCanceled
    \/ DoMatchFired
    \/ DoInvokeOnFire
    \/ DoCallbackReturns
    \/ DoSetState

InitConc == Init /\ onFire.reenter = "none"

SpecConc == InitConc /\ [][NextConc]_vars

\* A concurrent run of at most MaxFairCalls calls under a fair scheduler: a
\* goroutine inside a call that can take its next step (the mutex is free
\* when it is about to Lock, the callback returns) eventually takes it.
CallFireFair == TotalStarted < MaxFairCalls /\ CallFire
CallCancelFair == TotalStarted < MaxFairCalls /\ CallCancel

NextFair ==
    \/ CallFireFair
    \/ CallCancelFair
    \/ DoLock
    \/ DoMatchCanceled
    \/ DoMatchFired
    \/ DoInvokeOnFire
    \/ DoCallbackReturns
    \/ DoSetState

Step(t) ==
    \/ Lock(t)
    \/ MatchCanceled(t)
    \/ MatchFired(t)
    \/ InvokeOnFire(t)
    \/ CallbackReturns(t)
    \/ SetState(t)

SpecFair == InitConc /\ [][NextFair]_vars /\ \A t \in Threads : WF_vars(Step(t))

----------------------------------------------------------------------------
\* The Nil guard: goroutines call Nil.Fire() and Nil.Cancel(); the callback
\* guard of the model is not involved.

\* nilGuard.Fire and nilGuard.Cancel: the value returned
nilGuardFire_Fired == errFired
nilGuardFire == nil
nilGuardCancel == nil

InitNil ==
    /\ state = 0
    /\ mutex = 0
    /\ onFire = [isNil |-> TRUE, result |-> nil, reenter |-> "none"]
    /\ stack = [t \in Threads |-> << >>]
    /\ called = 0
    /\ nCalls = 0
    /\ started = [t \in Threads |-> 0]
    /\ rets = [t \in Threads |-> << >>]
    /\ walk = NoWalk

\* A goroutine calls Nil.Fire() or Nil.Cancel().
NilCall(t, op) ==
    /\ Depth(t) = 0
    /\ started[t] < MaxCalls
    /\ stack' = [stack EXCEPT ![t] = << [NewFrame(t, op) EXCEPT !.pc = "nilGuard"] >>]
    /\ started' = [started EXCEPT ![t] = @ + 1]
    /\ nCalls' = nCalls + 1
    /\ UNCHANGED <<state, mutex, onFire, called, rets, walk>>

\* { return nil }
NilReturn(t) ==
    /\ Depth(t) > 0
    /\ Top(t).pc = "nilGuard"
    /\ stack' = Pop(t)
    /\ rets' = [rets EXCEPT ![t] =
                    Append(@, Returned(t, Top(t),
                        IF Top(t).op = "Fire" THEN nilGuardFire ELSE nilGuardCancel))]
    /\ UNCHANGED <<state, mutex, onFire, called, nCalls, started, walk>>

NilFire == TotalStarted < MaxNilCalls /\ \E t \in Threads : NilCall(t, "Fire")
NilCancel == TotalStarted < MaxNilCalls /\ \E t \in Threads : NilCall(t, "Cancel")
DoNilReturn == \E t \in Threads : NilReturn(t)

NextNil ==
    \/ NilFire
    \/ NilCancel
    \/ DoNilReturn

SpecNil == InitNil /\ [][NextNil]_vars

----------------------------------------------------------------------------
\* Error classification: calling code hands an error to one of the queries.

InitErr ==
    /\ state = 0
    /\ mutex = 0
    /\ onFire = [isNil |-> TRUE, result |-> nil, reenter |-> "none"]
    /\ stack = [t \in Threads |-> << >>]
    /\ called = 0
    /\ nCalls = 0
    /\ started = [t \in Threads |-> 0]
    /\ rets = [t \in Threads |-> << >>]
    /\ walk \in [input : Chains, query : {"none"}, result : {Returns(FALSE)}]

QueryFired ==
    /\ walk.query = "none"
    /\ walk' = [walk EXCEPT !.query = "Fired", !.result = IsFiredError(walk.input)]
    /\ UNCHANGED <<state, mutex, onFire, stack, called, nCalls, started, rets>>

QueryCanceled ==
    /\ walk.query = "none"
    /\ walk' = [walk EXCEPT !.query = "Canceled", !.result = IsCanceledError(walk.input)]
    /\ UNCHANGED <<state, mutex, onFire, stack, called, nCalls, started, rets>>

NextErr ==
    \/ QueryFired
    \/ QueryCanceled

SpecErr == InitErr /\ [][NextErr]_vars

----------------------------------------------------------------------------
\* Vocabulary of the properties.

\* the calls that have returned, and the calls in progress
AllRets == UNION { { rets[t][i] : i \in 1..Len(rets[t]) } : t \in Threads }
AllFrames == UNION { { stack[t][i] : i \in 1..Depth(t) } : t \in Threads }

\* the error is one of the guard's own, as the exported queries see it
AlreadyFired(err) == IsFiredError(err) = Returns(TRUE)
AlreadyCanceled(err) == IsCanceledError(err) = Returns(TRUE)
Classified(err) == AlreadyFired(err) \/ AlreadyCanceled(err)

\* a call still checking the state: it has neither run the callback nor
\* reached setState
Checking(f) ==
    f.pc \in {"matchCanceled.Lock", "matchCanceled", "matchFired.Lock", "matchFired"}

NoReentry == onFire.reenter = "none"
OnlyFire == \A c \in AllRets \cup AllFrames : c.op = "Fire"
\* only goroutine t has called the guard
Alone(t) == \A u \in Threads \ {t} : started[u] = 0
RetsOf(t) == { rets[t][i] : i \in 1..Len(rets[t]) }

----------------------------------------------------------------------------
\* C1. At-most-once invocation: however the Fire calls of several goroutines
\* on one guard interleave, the callback is entered 0 or 1 times in total.
AtMostOnce == (NoReentry /\ OnlyFire) => called <= 1

\* C2. Single winner: when N calls, one per goroutine, have all returned,
\* exactly one of them performed the transition and returned success (a
\* Fire: the callback's result); every other one returned an AlreadyFired or
\* AlreadyCanceled error.
SingleWinner ==
    (NoReentry /\ Idle /\ nCalls >= 1 /\ \A t \in Threads : started[t] <= 1) =>
        /\ Cardinality({ c \in AllRets : c.wrote }) = 1
        /\ \A c \in AllRets :
              IF c.wrote
              THEN c.ret = (IF c.op = "Fire" THEN onFire.result ELSE nil)
              ELSE Classified(c.ret)

\* C3. Mutual exclusivity: if a Cancel returned success the callback has not
\* run and never runs; if a Fire performed the transition the callback has
\* run exactly once.
MutuallyExclusive ==
    (NoReentry /\ ~onFire.isNil) =>
        /\ (\E c \in AllRets : c.op = "Cancel" /\ c.ret = nil) => called = 0
        /\ (\E c \in AllRets : c.op = "Fire" /\ c.wrote) => called = 1

\* C4. One-way terminal transition: a call that begins after some call has
\* resolved the guard and returned gets a classified error, does not write
\* the state and does not run the callback.
OneWayTerminal ==
    NoReentry =>
        /\ \A f \in AllFrames : f.late => Checking(f)
        /\ \A c \in AllRets : c.late => Classified(c.ret) /\ ~c.wrote /\ ~c.ran

\* C5. Monotonicity: once the state is not Unresolved (0), no step changes it.
StateMonotone == [][(NoReentry /\ state # 0) => state' = state]_vars

\* C6. Sequential conformance: with calls issued one at a time, the first
\* call succeeds (Fire returns the callback's result, Cancel nil); after a
\* first Fire every later call returns an error IsFiredError accepts and the
\* callback has run exactly once; after a first Cancel every later call
\* returns an error IsCanceledError accepts and the callback has not run.
SequentialConformance ==
    \A first \in AllRets : first.seq = 1 =>
        /\ first.ret = (IF first.op = "Fire" THEN onFire.result ELSE nil)
        /\ first.op = "Fire" /\ ~onFire.isNil => called = 1
        /\ first.op = "Cancel" => called = 0
        /\ \A c \in AllRets : c.seq > 1 =>
              IF first.op = "Fire"
              THEN IsFiredError(c.ret) = Returns(TRUE)
              ELSE IsCanceledError(c.ret) = Returns(TRUE)

\* C6 witness: after a first Fire whose callback ran, a later Fire and a
\* later Cancel have both returned the already-fired error.
SequentialConformanceWitness ==
    /\ ~onFire.isNil
    /\ called = 1
    /\ \E first, c, d \in AllRets :
          /\ first.seq = 1 /\ first.op = "Fire" /\ first.ret = onFire.result
          /\ c.seq > 1 /\ c.op = "Fire" /\ c.ret = errFired
          /\ d.seq > 1 /\ d.op = "Cancel" /\ d.ret = errFired

\* C7. Reentrant Fire: a Fire called by the callback from inside Fire never
\* gets past the state checks, returns the already-fired error, and the
\* callback runs once.
ReentrantFire ==
    \A t \in Threads :
        (onFire.reenter = "Fire" /\ Alone(t) /\ started[t] <= 1) =>
            /\ \A i \in 2..Depth(t) : Checking(stack[t][i])
            /\ \A c \in RetsOf(t) : c.inner => AlreadyFired(c.ret) /\ ~c.ran
            /\ called <= 1

\* C8. Reentrant Cancel: a Cancel called by the callback from inside Fire
\* returns the already-fired error and does not write the state, and once
\* the outer Fire has returned the state is exactly Fired.
ReentrantCancel ==
    \A t \in Threads :
        (onFire.reenter = "Cancel" /\ Alone(t) /\ started[t] <= 1) =>
            /\ \A i \in 2..Depth(t) : Checking(stack[t][i])
            /\ \A c \in RetsOf(t) : c.inner => AlreadyFired(c.ret) /\ ~c.wrote
            /\ (\E c \in RetsOf(t) : ~c.inner /\ c.op = "Fire") => state = stFired

\* C9. Action failure still resolves the guard: a Fire whose callback
\* returned the error e returns e, the state is Fired from then on, and a
\* call that begins later returns the already-fired error without running
\* the callback.
ActionFailureResolves ==
    (NoReentry /\ onFire.result = errAction) =>
        /\ \A c \in AllRets : (c.op = "Fire" /\ c.ran) => c.ret = errAction
        /\ fireDone => state = stFired
        /\ \A f \in AllFrames : f.afterFire => Checking(f)
        /\ \A c \in AllRets : c.afterFire => AlreadyFired(c.ret) /\ ~c.ran

\* C10. Slow action: a call that starts while another goroutine is inside
\* the callback sees the Fired state: it returns the already-fired error,
\* neither running the callback nor succeeding as a Cancel.
SlowActionFailsFast ==
    NoReentry =>
        /\ \A f \in AllFrames : f.during => Checking(f)
        /\ \A c \in AllRets : c.during => AlreadyFired(c.ret) /\ ~c.ran /\ ~c.wrote

----------------------------------------------------------------------------
\* Properties of the classification queries.

WalkDone == walk.query # "none"
\* the capability the query made looks for
Implements(l) == IF walk.query = "Fired" THEN ImplementsFired(l) ELSE ImplementsCanceled(l)
Answer(l) == IF walk.query = "Fired" THEN Fired(l) ELSE Canceled(l)
GuardErrType == IF walk.query = "Fired" THEN "guardFiredErr" ELSE "guardCanceledErr"
\* the layers of the input that have the capability
Capable == { i \in 1..Len(walk.input) : Implements(walk.input[i]) }
Outermost == CHOOSE i \in Capable : \A j \in Capable : i <= j

\* C11. Classification survives wrapping: the guard's already-fired error
\* inside N >= 0 layers that expose Cause() (and not the capability) is
\* accepted by IsFiredError; likewise the already-canceled error by
\* IsCanceledError.
ClassificationSurvivesWrapping ==
    LET err == walk.input
        n == Len(err)
    IN  ( /\ WalkDone
          /\ n >= 1
          /\ err[n].type = GuardErrType
          /\ \A i \in 1..(n - 1) : ~Implements(err[i]) )
        => walk.result = Returns(TRUE)

\* C11 witness: IsFiredError has answered true for the already-fired error
\* inside two wrappers.
ClassificationSurvivesWrappingWitness ==
    /\ walk.query = "Fired"
    /\ walk.input = << [type |-> "wrap"], [type |-> "wrap"], [type |-> "guardFiredErr"] >>
    /\ walk.result = Returns(TRUE)

\* C12. Exhausted chain yields false: for an error none of whose layers has
\* the capability asked for, the query returns, and returns false.
ExhaustedChainYieldsFalse ==
    (WalkDone /\ Capable = {}) => walk.result = Returns(FALSE)

\* C18. First capability is authoritative: the query returns what the
\* outermost layer that has the capability reports, whatever it wraps; and
\* for wrappers without the capability whose innermost Cause() is nil it
\* returns false.
FirstCapabilityAuthoritative ==
    LET err == walk.input
        n == Len(err)
    IN  /\ (WalkDone /\ Capable # {}) => walk.result = Returns(Answer(err[Outermost]))
        /\ (WalkDone /\ Capable = {} /\ n >= 1 /\ ImplementsCauser(err[n]))
              => walk.result = Returns(FALSE)

\* C18 witness: IsFiredError has answered false for a wrapper whose Fired()
\* reports false around the guard's already-fired error.
FirstCapabilityAuthoritativeWitness ==
    /\ walk.query = "Fired"
    /\ walk.input = << [type |-> "firedFalse"], [type |-> "guardFiredErr"] >>
    /\ walk.result = Returns(FALSE)

----------------------------------------------------------------------------
\* C13. Nil action: on a guard constructed without a callback, a Fire that
\* found the guard Unresolved returns nil without invoking anything and
\* leaves the guard Fired, so that the calls the same goroutine makes
\* afterwards return the already-fired error.
NilActionResolves ==
    onFire.isNil =>
        \A t \in Threads : \A i \in 1..Len(rets[t]) :
            (rets[t][i].op = "Fire" /\ rets[t][i].wrote) =>
                /\ rets[t][i].ret = nil
                /\ called = 0
                /\ state = stFired
                /\ \A j \in (i + 1)..Len(rets[t]) : AlreadyFired(rets[t][j].ret)

\* C14. No-op guard: every Fire and Cancel on the Nil guard returns nil,
\* whatever the number, the order and the overlap of the calls; none
\* returns an already-fired or already-canceled error, and no state changes.
NilGuardAlwaysSucceeds ==
    /\ \A c \in AllRets : c.ret = nil /\ ~Classified(c.ret)
    /\ state = 0 /\ mutex = 0 /\ called = 0

\* C14 witness: one goroutine has had a Fire and a Cancel return nil on the
\* Nil guard while another goroutine, which has had a call return too, is
\* inside a call.
NilGuardAlwaysSucceedsWitness ==
    \E t, u \in Threads :
        /\ t # u
        /\ \E c, d \in RetsOf(t) :
              c.op = "Fire" /\ c.ret = nil /\ d.op = "Cancel" /\ d.ret = nil
        /\ RetsOf(u) # {}
        /\ Depth(u) > 0

\* C16. Only valid states: the stored state is Unresolved, Fired or Canceled,
\* never the fired and the canceled bit together.
OnlyValidStates == state \in {0, stFired, stCanceled}

\* C15. Classified errors come only from losing calls: a call that returned
\* the already-fired (already-canceled) error has not run the callback and
\* has not written the state, and another call, a Fire (a Cancel), had
\* written the state by then; a call that wrote the state did not return a
\* classified error.
ClassifiedOnlyWhenLost ==
    \A c \in AllRets :
        /\ AlreadyFired(c.ret) =>
              /\ ~c.ran /\ ~c.wrote
              /\ \E d \in AllRets : d.seq # c.seq /\ d.op = "Fire" /\ d.wrote
        /\ AlreadyCanceled(c.ret) =>
              /\ ~c.ran /\ ~c.wrote
              /\ \E d \in AllRets : d.seq # c.seq /\ d.op = "Cancel" /\ d.wrote
        /\ c.wrote => ~Classified(c.ret)

\* C15 witness: a Fire that ran the callback and wrote the state has
\* returned the callback's result, and a call that began while the callback
\* was running has returned the already-fired error.
ClassifiedOnlyWhenLostWitness ==
    \E c, d \in AllRets :
        /\ c.op = "Fire" /\ c.ran /\ c.wrote /\ c.ret = onFire.result
        /\ d.during /\ d.ret = errFired /\ ~d.wrote /\ ~d.ran

\* C17. Every call completes: with a callback that returns and does not
\* touch the guard, under a fair scheduler every call in progress
\* eventually returns, and the goroutine running the callback never holds
\* the mutex.
EveryCallCompletes ==
    /\ [](\A t \in Threads : (Depth(t) > 0 /\ Top(t).pc = "cb") => mutex # t)
    /\ \A t \in Threads : (Depth(t) > 0) ~> (Depth(t) = 0)

\* C17 witness: all calls have returned, among them a Fire that ran the
\* callback and a call that began while the callback was running.
EveryCallCompletesWitness ==
    /\ Idle
    /\ \E c, d \in AllRets : c.ran /\ d.during

====
